---- MODULE Spec2Model ----
(***************************************************************************)
(* Model of venus-worker/src/watchdog.rs: the WatchDog supervisor, its     *)
(* module threads, the zero-capacity `done` channel and the per-module     *)
(* single-slot result channels.                                            *)
(*                                                                         *)
(* The caller thread owns the WatchDog (`&mut self`), so start_module and  *)
(* wait never overlap; every module runs on a thread of its own.           *)
(* Registrations are numbered from 1 here (self.modules[i-1] in the code); *)
(* select-operation indexes and the values of `indexes` are the code's     *)
(* 0-based numbers.                                                        *)
(***************************************************************************)
EXTENDS Naturals, Sequences, FiniteSets

\* ------------------------------------------------------------------ bounds
MaxModules == 2
MaxWaits == 2

\* ------------------------------------------------------- program constants
\* bounded(1): each result channel holds one message.
ResCap == 1

\* ------------------------------------------------------------------ inputs
\* Module::id() values; duplicates are allowed by start_module.
Ids == {"sealer", "poller"}
\* Error details a module's run may return.
Errs == {"disk full"}

OkRes == [ok |-> TRUE, e |-> ""]
ErrRes(e) == [ok |-> FALSE, e |-> e]

\* What Module::run does with its Ctx (the trait leaves it open):
\*   ReturnOk / ReturnErr  return on their own,
\*   Panic                 unwinds inside run,
\*   AwaitDone             blocks on ctx.done and returns Ok(()) once it is closed,
\*   Forever               never looks at ctx.done and never returns.
Behaviours ==
  {[kind |-> "ReturnOk", e |-> ""], [kind |-> "Panic", e |-> ""],
   [kind |-> "AwaitDone", e |-> ""], [kind |-> "Forever", e |-> ""]}
  \cup {[kind |-> "ReturnErr", e |-> e] : e \in Errs}

Module == {[id |-> i, kind |-> b.kind, e |-> b.e] : i \in Ids, b \in Behaviours}

VARIABLES
  done_ctrl,     \* self.done_ctrl: "Some" or "None"
  done_senders,  \* live Sender<()> handles of the done channel
  done_msgs,     \* values ever sent on the done channel
  modules,       \* self.modules: the registered identifiers, in order
  m,             \* the Module moved into each thread's closure
  ctx_done,      \* the channel behind ctx.done in each thread's Ctx
  pc,            \* each module thread's position
  res,           \* each thread's local `res` (the value run returned)
  res_chan,      \* each result channel's buffer
  res_tx,        \* whether each result channel's Sender is alive
  sent,          \* values ever sent on each result channel
  mlog,          \* each module span's info! events
  wpc,           \* the caller's position: "idle" or "select" (inside wait)
  wdone,         \* wait's local done_ctrl: "none", "Ok" (holds the Sender), "Err"
  indexes,       \* wait's local HashMap: select-op index -> registration index
  rets,          \* the values wait has returned, in call order
  hist,          \* history, per returned wait: the registry length it found,
                 \* its local done_ctrl, the registration it selected (0: none)
                 \* and what op.recv gave it
  wlog           \* the warn!/error! events of wait

vars == <<done_ctrl, done_senders, done_msgs, modules, m, ctx_done, pc, res,
          res_chan, res_tx, sent, mlog, wpc, wdone, indexes, rets, hist, wlog>>

threadVars == <<m, ctx_done, pc, res, res_chan, res_tx, sent, mlog>>
waitVars == <<wpc, wdone, indexes, rets, hist, wlog>>

N == Len(modules)
Regs == 1..N

\* ------------------------------------------------------- channel semantics
\* A crossbeam channel is disconnected when every Sender is dropped.
DoneClosed == done_senders = 0

\* ctx.done.recv() completes when a value is delivered or the channel is
\* disconnected; it blocks otherwise.
DoneRecvReady == done_msgs > 0 \/ DoneClosed

\* self.ctx.done: the Receiver of the channel build created.
SelfCtxDone == "done"

\* A read of a Ctx's done completes when that Ctx holds a Receiver of
\* build's channel and that channel is ready; closing build's channel does
\* nothing to a Receiver of any other channel.
CtxRecvReady(c) == c = SelfCtxDone /\ DoneRecvReady

\* Mutant: start_module builds a channel of its own for each module.
CtxCloneFresh == "fresh"

\* self.ctx.clone(): the clone holds a Receiver of the same channel.
CtxClone == SelfCtxDone

\* Mutant: the selector reports an operation without waiting for it
\* (try_select-like polling).
ChanReadyAlways(i) == TRUE

\* Mutant: only a buffered message makes an operation ready; a
\* disconnected channel is waited on for ever.
ChanReadyMessageOnly(i) == res_chan[i] # <<>>

\* A recv operation of the selector is ready when its channel holds a
\* message or is disconnected.
ChanReady(i) == res_chan[i] # <<>> \/ ~res_tx[i]

\* ------------------------------------------------------------------- build
Init ==
  /\ done_ctrl = "Some"
  /\ done_senders = 1
  /\ done_msgs = 0
  /\ modules = <<>>
  /\ m = <<>>
  /\ ctx_done = <<>>
  /\ pc = <<>>
  /\ res = <<>>
  /\ res_chan = <<>>
  /\ res_tx = <<>>
  /\ sent = <<>>
  /\ mlog = <<>>
  /\ wpc = "idle"
  /\ wdone = "none"
  /\ indexes = <<>>
  /\ rets = <<>>
  /\ hist = <<>>
  /\ wlog = <<>>

\* ------------------------------------------------------------ start_module
StartModule ==
  /\ wpc = "idle"
  /\ N < MaxModules
  /\ \E mod \in Module :
       /\ modules' = Append(modules, mod.id)
       /\ m' = Append(m, mod)
       /\ ctx_done' = Append(ctx_done, CtxClone)
       /\ pc' = Append(pc, "spawned")
       /\ res' = Append(res, OkRes)
       /\ res_chan' = Append(res_chan, <<>>)
       /\ res_tx' = Append(res_tx, TRUE)
       /\ sent' = Append(sent, 0)
       /\ mlog' = Append(mlog, <<>>)
  /\ UNCHANGED <<done_ctrl, done_senders, done_msgs>>
  /\ UNCHANGED waitVars

\* ------------------------------------------------------- the module thread
\* info!("start")
LogStart(i) ==
  /\ pc[i] = "spawned"
  /\ mlog' = [mlog EXCEPT ![i] = Append(@, "start")]
  /\ pc' = [pc EXCEPT ![i] = "running"]
  /\ UNCHANGED <<done_ctrl, done_senders, done_msgs, modules, m, ctx_done, res, res_chan,
                 res_tx, sent>>
  /\ UNCHANGED waitVars

\* m.run(ctx) returns on its own.
RunReturn(i) ==
  /\ pc[i] = "running"
  /\ m[i].kind \in {"ReturnOk", "ReturnErr"}
  /\ res' = [res EXCEPT ![i] = IF m[i].kind = "ReturnOk" THEN OkRes ELSE ErrRes(m[i].e)]
  /\ pc' = [pc EXCEPT ![i] = "returned"]
  /\ UNCHANGED <<done_ctrl, done_senders, done_msgs, modules, m, ctx_done, res_chan,
                 res_tx, sent, mlog>>
  /\ UNCHANGED waitVars

\* m.run(ctx) blocks on ctx.done and returns once the read completes.
RunAwaitDone(i) ==
  /\ pc[i] = "running"
  /\ m[i].kind = "AwaitDone"
  /\ CtxRecvReady(ctx_done[i])
  /\ res' = [res EXCEPT ![i] = OkRes]
  /\ pc' = [pc EXCEPT ![i] = "returned"]
  /\ UNCHANGED <<done_ctrl, done_senders, done_msgs, modules, m, ctx_done, res_chan,
                 res_tx, sent, mlog>>
  /\ UNCHANGED waitVars

\* m.run(ctx) panics: the closure unwinds and drops res_tx without sending.
RunPanic(i) ==
  /\ pc[i] = "running"
  /\ m[i].kind = "Panic"
  /\ pc' = [pc EXCEPT ![i] = "panicked"]
  /\ res_tx' = [res_tx EXCEPT ![i] = FALSE]
  /\ UNCHANGED <<done_ctrl, done_senders, done_msgs, modules, m, ctx_done, res, res_chan,
                 sent, mlog>>
  /\ UNCHANGED waitVars

\* info!("stop")
LogStop(i) ==
  /\ pc[i] = "returned"
  /\ mlog' = [mlog EXCEPT ![i] = Append(@, "stop")]
  /\ pc' = [pc EXCEPT ![i] = "stopped"]
  /\ UNCHANGED <<done_ctrl, done_senders, done_msgs, modules, m, ctx_done, res, res_chan,
                 res_tx, sent>>
  /\ UNCHANGED waitVars

\* Mutant: the result channel is a rendezvous channel, bounded(0).
ResRoomRendezvous(i) == Len(res_chan[i]) < 0

\* Room in the result channel's buffer (bounded(1)).
ResRoom(i) == Len(res_chan[i]) < ResCap

\* Mutant: the result is sent as soon as run returns; "stop" is not logged
\* before the post.
PostBeforeStop(i) ==
  /\ pc[i] = "returned"
  /\ ResRoom(i)
  /\ res_chan' = [res_chan EXCEPT ![i] = Append(@, res[i])]
  /\ sent' = [sent EXCEPT ![i] = @ + 1]
  /\ pc' = [pc EXCEPT ![i] = "posted"]
  /\ UNCHANGED <<done_ctrl, done_senders, done_msgs, modules, m, ctx_done, res,
                 res_tx, mlog>>
  /\ UNCHANGED waitVars

\* let _ = res_tx.send(res); blocks while the buffer is full.
Post(i) ==
  /\ pc[i] = "stopped"
  /\ ResRoom(i)
  /\ res_chan' = [res_chan EXCEPT ![i] = Append(@, res[i])]
  /\ sent' = [sent EXCEPT ![i] = @ + 1]
  /\ pc' = [pc EXCEPT ![i] = "posted"]
  /\ UNCHANGED <<done_ctrl, done_senders, done_msgs, modules, m, ctx_done, res, res_tx, mlog>>
  /\ UNCHANGED waitVars

\* The closure ends: res_tx is dropped and the thread terminates.
ThreadEnd(i) ==
  /\ pc[i] = "posted"
  /\ res_tx' = [res_tx EXCEPT ![i] = FALSE]
  /\ pc' = [pc EXCEPT ![i] = "ended"]
  /\ UNCHANGED <<done_ctrl, done_senders, done_msgs, modules, m, ctx_done, res, res_chan,
                 sent, mlog>>
  /\ UNCHANGED waitVars

\* -------------------------------------------------------------------- wait
\* What wait returns. Ok(()), or an anyhow error: "unable to recv run result
\* from module {name} ..." or "no module found for select op index {opidx}".
OkRet == [kind |-> "Ok", name |-> "", opidx |-> 0]
RecvErrRet(name) == [kind |-> "ErrRecv", name |-> name, opidx |-> 0]
LookupErrRet(opidx) == [kind |-> "ErrLookup", name |-> "", opidx |-> opidx]

\* Mutant: the early return for an empty registry is missing.
RegistryEmptyUnchecked == FALSE

\* self.modules.is_empty()
RegistryEmpty == modules = <<>>

\* self.done_ctrl.take().ok_or(anyhow!("no done controller provided")):
\* the local holds Ok(sender) or Err(..); the Result is not propagated.
TakeDoneCtrl == IF done_ctrl = "Some" THEN "Ok" ELSE "Err"

\* Mutant: `let _ = self.done_ctrl.take()` drops the Sender at once.
SendersAfterTakeDropped == IF done_ctrl = "Some" THEN done_senders - 1 ELSE done_senders

\* take() moves the Sender into the local: no endpoint is dropped by it.
SendersAfterTake == done_senders

\* Select::recv returns the index of the operation it adds: 0, 1, 2, ...
SelectorRecv(k) == k

\* Mutant: the map is keyed as if select operations were numbered from 1.
BuildIndexesFromOne(n) == [idx \in 1..n |-> idx - 1]

\* indexes.insert(idx, i) for (i, m) in self.modules.iter().enumerate()
BuildIndexes(n) ==
  [idx \in {SelectorRecv(i) : i \in 0..(n - 1)} |->
     CHOOSE i \in 0..(n - 1) : SelectorRecv(i) = idx]

\* Mutant: the selector prefers the lowest ready operation.
ReadyOpsLowestFirst ==
  {k \in 0..(N - 1) : ChanReady(k + 1) /\ \A j \in 0..(N - 1) : j < k => ~ChanReady(j + 1)}

\* The operations selector.select() may return: operation k was added for
\* the receiver of registration k (0-based).
ReadyOps == {k \in 0..(N - 1) : ChanReady(k + 1)}

\* op.recv(&self.modules[midx].2): the message, or RecvError when the
\* channel is empty and disconnected.
NoRecv == [got |-> "none", r |-> OkRes]
OpRecv(midx) ==
  IF res_chan[midx] = <<>>
  THEN [got |-> "RecvError", r |-> OkRes]
  ELSE [got |-> "value", r |-> Head(res_chan[midx])]

\* Mutant: a failed op.recv is swallowed (unwrap_or(Ok(()))).
WaitResultSwallow(rcv, mname) == OkRet

\* Mutant: the module's own Err is propagated (`res?`).
WaitResultPropagate(rcv, mname) ==
  IF rcv.got = "RecvError"
  THEN RecvErrRet(mname)
  ELSE IF rcv.r.ok THEN OkRet ELSE [kind |-> "ErrModule", name |-> mname, opidx |-> 0]

\* The value wait returns once op.recv has completed.
WaitResult(rcv, mname) ==
  IF rcv.got = "RecvError" THEN RecvErrRet(mname) ELSE OkRet

\* match res { Ok(_) => warn!(..), Err(e) => error!(..) }; `call` numbers
\* the wait call that emits the event.
Classify(rcv, mname, call) ==
  IF rcv.got # "value"
  THEN <<>>
  ELSE IF rcv.r.ok
       THEN <<[call |-> call, ev |-> "stopped", name |-> mname, e |-> ""]>>
       ELSE <<[call |-> call, ev |-> "stopped unexpectedly", name |-> mname,
               e |-> rcv.r.e]>>

\* Mutant: wait works on a clone of the Sender, so self keeps an endpoint.
DropLocalDoneCtrlCloned == done_senders

\* A return of wait drops its locals: a Sender held in the local done_ctrl
\* is dropped with them (also by the explicit drop(done_ctrl)).
DropLocalDoneCtrl == IF wdone = "Ok" THEN done_senders - 1 ELSE done_senders

\* Mutant: the shutdown is signalled by sending () on the done channel.
DoneMsgsAfterWaitSent == done_msgs + 1

\* wait sends nothing on the done channel: it only drops the Sender.
DoneMsgsAfterWait == done_msgs

\* Mutant: wait joins the other modules' threads before it returns.
RemainingStoppedJoined == \A i \in Regs : pc[i] \in {"posted", "ended", "panicked"}

\* "TODO: wait for all submodules to stop gracefully": nothing is awaited
\* between the select and the return.
RemainingStopped == TRUE

\* Mutant: the selected record is removed from the registry.
RegistryAfterWaitRemoved(midx) ==
  [j \in 1..(N - 1) |-> IF j < midx THEN modules[j] ELSE modules[j + 1]]

\* wait only borrows self.modules: no record is removed.
RegistryAfterWait(midx) == modules

\* Mutant: wait drains every result channel.
ChansAfterRecvDrained(midx, rcv) == [j \in Regs |-> <<>>]

\* op.recv takes the message, if there is one, out of the selected channel
\* and touches no other channel.
ChansAfterRecv(midx, rcv) ==
  [res_chan EXCEPT ![midx] = IF rcv.got = "value" THEN Tail(@) ELSE @]

WaitReturn(v, midx, rcv) ==
  /\ rets' = Append(rets, v)
  /\ done_msgs' = DoneMsgsAfterWait
  /\ hist' = Append(hist, [n |-> N, done_ctrl |-> wdone, midx |-> midx, recv |-> rcv])
  /\ done_senders' = DropLocalDoneCtrl
  /\ wdone' = "none"
  /\ indexes' = <<>>
  /\ wpc' = "idle"

\* wait, up to the blocking selector.select().
WaitCall ==
  /\ wpc = "idle"
  /\ Len(rets) < MaxWaits
  /\ IF RegistryEmpty
     THEN /\ rets' = Append(rets, OkRet)
          /\ hist' = Append(hist, [n |-> N, done_ctrl |-> "none", midx |-> 0,
                                   recv |-> NoRecv])
          /\ UNCHANGED <<done_ctrl, done_senders, wpc, wdone, indexes>>
     ELSE /\ wdone' = TakeDoneCtrl
          /\ done_ctrl' = "None"
          /\ done_senders' = SendersAfterTake
          /\ indexes' = BuildIndexes(N)
          /\ wpc' = "select"
          /\ UNCHANGED <<rets, hist>>
  /\ UNCHANGED <<done_msgs, modules, wlog>>
  /\ UNCHANGED threadVars

\* wait, from the return of selector.select() to its own return.
WaitSelect ==
  /\ wpc = "select"
  /\ \E opidx \in ReadyOps :
       IF opidx \notin DOMAIN indexes
       THEN /\ WaitReturn(LookupErrRet(opidx), 0, NoRecv)
            /\ UNCHANGED <<modules, res_chan, wlog>>
       ELSE LET midx == indexes[opidx] + 1
                mname == modules[midx]
                rcv == OpRecv(midx)
            IN /\ res_chan' = ChansAfterRecv(midx, rcv)
               /\ modules' = RegistryAfterWait(midx)
               /\ wlog' = wlog \o Classify(rcv, mname, Len(rets) + 1)
               /\ WaitReturn(WaitResult(rcv, mname), midx, rcv)
  /\ RemainingStopped
  /\ UNCHANGED <<done_ctrl, m, ctx_done, pc, res, res_tx, sent, mlog>>

ThreadStep(i) ==
  \/ LogStart(i)
  \/ RunReturn(i)
  \/ RunAwaitDone(i)
  \/ RunPanic(i)
  \/ LogStop(i)
  \/ Post(i)
  \/ ThreadEnd(i)

Next ==
  \/ StartModule
  \/ WaitCall
  \/ WaitSelect
  \/ \E i \in Regs : ThreadStep(i)

Spec == Init /\ [][Next]_vars

\* Each spawned thread is scheduled by the operating system, and a caller
\* blocked in select() is woken once an operation is ready.
FairSpec ==
  /\ Spec
  /\ \A i \in 1..MaxModules : WF_vars(i \in Regs /\ ThreadStep(i))
  /\ WF_vars(WaitSelect)

\* ------------------------------------------------------------ vocabulary
Calls == 1..Len(rets)

\* The wait calls that found at least one registered module.
NonEmptyCalls == {k \in Calls : hist[k].n >= 1}

\* The events wait call k emitted.
EventsOf(k) == {j \in 1..Len(wlog) : wlog[j].call = k}

\* Module i's thread has posted its result, or died without posting.
Terminated(i) == sent[i] >= 1 \/ pc[i] = "panicked"

\* ------------------------------------------------------------------ claims

\* C1: on a supervisor with at least one started module, a wait call that
\* finds the send endpoint already taken returns the misuse error "no
\* cancellation controller" without selecting over the result channels.
C1_SecondWaitIsMisuse ==
  /\ ~(wpc = "select" /\ wdone = "Err")
  /\ \A k \in Calls : hist[k].done_ctrl = "Err" => rets[k].kind = "ErrNoCtrl"

\* C2: once a wait call on a non-empty registry has returned, by whichever
\* return path, the done channel is disconnected and every read of ctx.done
\* completes.
C2_ClosedOnEveryReturn ==
  NonEmptyCalls # {} =>
    /\ DoneClosed
    /\ \A i \in Regs :
         (pc[i] = "running" /\ m[i].kind = "AwaitDone") => ENABLED RunAwaitDone(i)

\* C2 witness: wait returned by the receive-error path and the channel is
\* closed while another module is still blocked on it in run.
C2_Witness ==
  /\ \E k \in Calls : rets[k].kind = "ErrRecv" /\ hist[k].done_ctrl = "Ok"
  /\ \E i \in Regs : m[i].kind = "AwaitDone" /\ pc[i] = "running"
  /\ DoneClosed

\* C3: wait on a non-empty registry stays blocked while every module is
\* still before or inside run, and has returned only if some registered
\* module has posted or died without posting.
C3_NeverAfterZero ==
  /\ (wpc = "select" /\ \A i \in Regs : pc[i] \in {"spawned", "running"})
       => ReadyOps = {}
  /\ \A k \in NonEmptyCalls : \E i \in 1..hist[k].n : Terminated(i)

\* C3 witness: a wait over two modules returned while the other module is
\* still inside run.
C3_Witness ==
  /\ \E k \in Calls : hist[k].n = 2 /\ hist[k].midx # 0
  /\ \E i \in Regs : pc[i] = "running"

\* C4: when the selected module died inside run without posting, wait
\* returns the receive error naming that module and logs no stop event.
C4_RecvErrorNamesModule ==
  \A k \in Calls :
    (hist[k].midx # 0 /\ pc[hist[k].midx] = "panicked")
      => /\ rets[k] = RecvErrRet(modules[hist[k].midx])
         /\ EventsOf(k) = {}

\* C4 witness: a wait returned after selecting a module that panicked.
C4_Witness ==
  \E k \in Calls : hist[k].midx # 0 /\ pc[hist[k].midx] = "panicked"

\* C5: when wait read a posted result it returns Ok; a posted Ok(()) is
\* logged as "stopped", a posted Err(e) as "stopped unexpectedly" with the
\* module's identifier and e.
C5_PostedResultIsOk ==
  \A k \in Calls :
    hist[k].recv.got = "value"
      => LET i == hist[k].midx
         IN /\ rets[k] = OkRet
            /\ hist[k].recv.r = res[i]
            /\ \E j \in 1..Len(wlog) :
                 /\ EventsOf(k) = {j}
                 /\ wlog[j].name = m[i].id
                 /\ IF m[i].kind = "ReturnErr"
                    THEN wlog[j].ev = "stopped unexpectedly" /\ wlog[j].e = m[i].e
                    ELSE wlog[j].ev = "stopped" /\ wlog[j].e = ""

\* C5 witness: one wait read a posted Err and a later one a posted Ok.
C5_Witness ==
  \E j, k \in Calls :
    /\ j < k
    /\ hist[j].recv.got = "value" /\ ~hist[j].recv.r.ok
    /\ hist[k].recv.got = "value" /\ hist[k].recv.r.ok

\* The first wait call over a non-empty registry is blocked in select, one
\* module k returns on its own and every other one blocks on ctx.done;
\* c numbers the call.
CoopScenario(k, c) ==
  /\ wpc = "select"
  /\ wdone = "Ok"
  /\ Len(rets) = c - 1
  /\ k \in Regs
  /\ m[k].kind \in {"ReturnOk", "ReturnErr"}
  /\ \A i \in Regs \ {k} : m[i].kind = "AwaitDone"

\* Call c returned Ok reporting module k, and every module registered at
\* that call has run to the end of its thread.
CoopOutcome(k, c) ==
  /\ Len(rets) >= c
  /\ rets[c] = OkRet
  /\ hist[c].midx = k
  /\ \E j \in EventsOf(c) :
       /\ wlog[j].name = m[k].id
       /\ wlog[j].e = m[k].e
       /\ wlog[j].ev = IF m[k].kind = "ReturnOk" THEN "stopped"
                       ELSE "stopped unexpectedly"
  /\ \A i \in 1..hist[c].n : pc[i] = "ended"

\* C6: with one module that terminates on its own and all others blocked on
\* the cancellation signal, under fair scheduling wait eventually returns Ok
\* reporting that module and every other module's thread eventually ends.
C6_CooperativeShutdown ==
  \A k \in 1..MaxModules, c \in 1..MaxWaits : CoopScenario(k, c) ~> CoopOutcome(k, c)

\* C6 witness: the outcome is reached with a module that was blocked on
\* ctx.done beside the one that returned Err.
C6_Witness ==
  \E c \in Calls, k \in Regs :
    /\ CoopOutcome(k, c)
    /\ hist[c].n >= 2
    /\ hist[c].done_ctrl = "Ok"
    /\ m[k].kind = "ReturnErr"
    /\ \A i \in (1..hist[c].n) \ {k} : m[i].kind = "AwaitDone"

\* C7: the done channel is disconnected only after a wait call over a
\* non-empty registry has selected a terminated module; before any such
\* call the supervisor holds the send endpoint and reads of ctx.done block.
C7_OpenUntilSelected ==
  /\ DoneClosed =>
       \E k \in NonEmptyCalls : hist[k].midx # 0 /\ Terminated(hist[k].midx)
  /\ (NonEmptyCalls = {} /\ wpc = "idle") =>
       /\ done_ctrl = "Some"
       /\ done_senders = 1
       /\ ~DoneRecvReady
       /\ \A i \in Regs : ~ENABLED RunAwaitDone(i)

\* C7 witness: after a wait on the empty registry, a wait over two modules
\* is blocked in select although one module has already posted, and the
\* other, blocked on ctx.done, still sees the channel open.
C7_Witness ==
  /\ Len(rets) = 1 /\ hist[1].n = 0
  /\ wpc = "select"
  /\ \E i, j \in Regs :
       /\ Terminated(i)
       /\ m[j].kind = "AwaitDone" /\ pc[j] = "running"
  /\ ~DoneClosed

\* C8: a result channel carries at most one value, exactly one once the
\* thread is past its post, the post is never blocked, and under fair
\* scheduling a thread whose run returned reaches its end.
C8_OnePostNeverBlocks ==
  /\ [](\A i \in Regs :
          /\ sent[i] <= 1
          /\ Len(res_chan[i]) <= sent[i]
          /\ pc[i] \in {"posted", "ended"} => sent[i] = 1
          /\ pc[i] \notin {"posted", "ended"} => sent[i] = 0
          /\ pc[i] = "stopped" => ENABLED Post(i))
  /\ \A i \in 1..MaxModules : (i \in Regs /\ pc[i] = "returned") ~> (i \in Regs /\ pc[i] = "ended")

\* C8 witness: a module that wait did not select has ended with its result
\* still unread in its channel.
C8_Witness ==
  \E i \in Regs :
    /\ pc[i] = "ended"
    /\ res_chan[i] = <<res[i]>>
    /\ \E k \in NonEmptyCalls : hist[k].midx # i /\ hist[k].n >= i

\* A wait call on the empty registry returns in this step.
ZeroWaitStep == RegistryEmpty /\ Len(rets') = Len(rets) + 1

\* C9: wait on the empty registry returns Ok at once and changes nothing of
\* the supervisor; the send endpoint is taken once, by the first wait call
\* that finds a module, and is never present again.
C9_ZeroWaitAndSingleTake ==
  /\ [](\A k \in Calls : hist[k].n = 0 => (rets[k] = OkRet /\ hist[k].done_ctrl = "none"))
  /\ [](wpc = "select" => N >= 1)
  /\ []((done_ctrl = "Some") <=> (NonEmptyCalls = {} /\ wpc = "idle"))
  /\ [](Cardinality({k \in Calls : hist[k].done_ctrl = "Ok"})
          + (IF wdone = "Ok" THEN 1 ELSE 0) <= 1)
  /\ [](\A k \in NonEmptyCalls :
          (hist[k].done_ctrl = "Ok") <=> (\A j \in NonEmptyCalls : k <= j))
  /\ [][ZeroWaitStep =>
          /\ rets' = Append(rets, OkRet)
          /\ UNCHANGED <<done_ctrl, done_senders, done_msgs, modules, wpc, wdone,
                         indexes, wlog>>]_vars
  /\ [][done_ctrl = "None" => done_ctrl' = "None"]_vars

\* C9 witness: a wait on the empty registry returned, and a later wait,
\* the first to find a module, took the endpoint.
C9_Witness ==
  /\ Len(rets) = 2
  /\ hist[1].n = 0
  /\ hist[2].done_ctrl = "Ok"
  /\ done_ctrl = "None"

\* The wait calls that read a posted result before call k.
ReadBefore(k) == {j \in Calls : j < k /\ hist[j].recv.got = "value"}

CallerStep == wpc' # wpc \/ rets' # rets \/ modules' # modules

\* C11: wait does not join the other threads: once a registered module has
\* terminated, a wait blocked in select returns under fair scheduling even
\* when the other modules never stop; no step of the caller moves a module
\* thread, and a module that ignores ctx.done stays inside run.
C11_WaitDoesNotJoin ==
  /\ (wpc = "select" /\ \E i \in Regs : Terminated(i)) ~> (wpc = "idle")
  /\ [][CallerStep =>
          \A i \in Regs : pc'[i] = pc[i] /\ res_tx'[i] = res_tx[i]]_vars
  /\ [](\A i \in Regs : m[i].kind = "Forever" => pc[i] \in {"spawned", "running"})

\* C11 witness: a wait over two modules has returned while the other
\* module, which never looks at ctx.done, is still running.
C11_Witness ==
  \E k \in NonEmptyCalls : \E i \in 1..hist[k].n :
    /\ hist[k].n = 2
    /\ i # hist[k].midx
    /\ m[i].kind = "Forever"
    /\ pc[i] = "running"
    /\ DoneClosed

\* wait returns in this step.
WaitReturns == wpc = "select" /\ wpc' = "idle"

\* The registration the wait call returning in this step selected.
SelectedNow == hist'[Len(hist')].midx

\* wait returns in this step having selected registration i.
SelectPicks(i) == WaitSelect /\ SelectedNow = i

\* C12: the module a wait call reports had terminated, with its channel
\* ready, when it was selected; if only one module has terminated it is the
\* one reported; every registration whose channel is ready may be the one
\* selected, whatever its index; a call reports one module and logs at most
\* one event.
C12_AnyTerminatedModule ==
  /\ [][WaitReturns =>
          /\ SelectedNow \in Regs
          /\ ChanReady(SelectedNow)
          /\ Terminated(SelectedNow)
          /\ \A i \in Regs : ({j \in Regs : Terminated(j)} = {i}) => SelectedNow = i]_vars
  /\ [](wpc = "select" => \A i \in Regs : ChanReady(i) => ENABLED SelectPicks(i))
  /\ [](\A k \in NonEmptyCalls :
          /\ hist[k].midx \in 1..hist[k].n
          /\ Terminated(hist[k].midx)
          /\ Cardinality(EventsOf(k)) <= 1)

\* C12 witness: wait is blocked in select with the channels of the first
\* two registrations both ready, the second holding a posted result and
\* the first one disconnected.
C12_Witness ==
  /\ wpc = "select"
  /\ N >= 2
  /\ ~res_tx[1] /\ res_chan[1] = <<>>
  /\ res_chan[2] # <<>>

\* C13: a returning wait leaves every result channel but the selected one
\* as it was and takes at most the head message out of the selected one; no
\* step removes a record, so the registry is as long as the number of
\* threads start_module has spawned.
C13_OneChannelReadNoRecordRemoved ==
  /\ [][WaitReturns =>
          /\ modules' = modules
          /\ \A i \in Regs : i # SelectedNow => res_chan'[i] = res_chan[i]
          /\ SelectedNow \in Regs =>
               \/ res_chan'[SelectedNow] = res_chan[SelectedNow]
               \/ /\ res_chan[SelectedNow] # <<>>
                  /\ res_chan'[SelectedNow] = Tail(res_chan[SelectedNow])]_vars
  /\ [][modules' = modules \/ \E id \in Ids : modules' = Append(modules, id)]_vars
  /\ [](Len(modules) = Len(pc) /\ \A i \in Regs : modules[i] = m[i].id)

\* C13 witness: a wait over two modules read the result of one of them
\* while the other's posted result stays unread in its slot.
C13_Witness ==
  \E k \in NonEmptyCalls : \E i \in 1..hist[k].n :
    /\ hist[k].recv.got = "value"
    /\ i # hist[k].midx
    /\ pc[i] = "posted"
    /\ res_chan[i] = <<res[i]>>
    /\ Len(modules) = 2

\* The order of a module thread's positions: start event, run (which
\* returns or panics), stop event, post, end.
ThreadOrder ==
  {<<"spawned", "running">>, <<"running", "returned">>, <<"running", "panicked">>,
   <<"returned", "stopped">>, <<"stopped", "posted">>, <<"posted", "ended">>}

\* C14: within a module thread the start event, run, the stop event and
\* the post happen in this order and once each: a result is in the channel
\* only after run returned and the stop event was logged, and a thread
\* whose run has not returned has logged no stop event and posted nothing.
C14_ThreadStepsInOrder ==
  /\ [](\A i \in Regs :
          /\ pc[i] = "spawned" => mlog[i] = <<>>
          /\ pc[i] \in {"running", "returned", "panicked"} => mlog[i] = <<"start">>
          /\ pc[i] \in {"stopped", "posted", "ended"} => mlog[i] = <<"start", "stop">>
          /\ sent[i] = IF pc[i] \in {"posted", "ended"} THEN 1 ELSE 0
          /\ res_chan[i] # <<>> =>
               (pc[i] \in {"posted", "ended"} /\ res_chan[i] = <<res[i]>>))
  /\ [][\A i \in Regs : pc'[i] # pc[i] => <<pc[i], pc'[i]>> \in ThreadOrder]_vars

\* C14 witness: one module has gone through all four steps and its result
\* was read by wait, while another is inside run with only its start event.
C14_Witness ==
  \E i, j \in Regs :
    /\ pc[i] = "ended" /\ mlog[i] = <<"start", "stop">> /\ sent[i] = 1
    /\ \E k \in Calls : hist[k].midx = i /\ hist[k].recv.got = "value"
    /\ pc[j] = "running" /\ mlog[j] = <<"start">>

\* C15: nothing is ever sent on the done channel; a read of ctx.done
\* completes only when the channel is closed, and once it is closed every
\* module reading it can complete its read.
C15_ClosureIsTheSignal ==
  /\ done_msgs = 0
  /\ \A i \in Regs : ENABLED RunAwaitDone(i) => DoneClosed
  /\ DoneClosed =>
       \A i \in Regs :
         (pc[i] = "running" /\ m[i].kind = "AwaitDone") => ENABLED RunAwaitDone(i)

\* C15 witness: a module that blocked on ctx.done has completed its read
\* after wait closed the channel, with no value ever sent.
C15_Witness ==
  /\ DoneClosed
  /\ done_msgs = 0
  /\ \E k \in NonEmptyCalls : \E i \in 1..hist[k].n :
       m[i].kind = "AwaitDone" /\ pc[i] = "returned"

\* C16: every Ctx handed to a module holds a Receiver of build's channel;
\* once that channel is closed it stays closed, no Sender comes back, and a
\* module started afterwards can complete its first read of ctx.done at
\* once.
C16_OneSharedChannel ==
  /\ [](\A i \in Regs : ctx_done[i] = SelfCtxDone)
  /\ [](\A k \in NonEmptyCalls : \A i \in Regs :
          (i > hist[k].n /\ pc[i] = "running" /\ m[i].kind = "AwaitDone")
            => ENABLED RunAwaitDone(i))
  /\ [][DoneClosed => DoneClosed']_vars
  /\ [][done_senders' <= done_senders]_vars

\* C16 witness: a module registered after wait had returned and closed the
\* channel has read ctx.done and returned from run.
C16_Witness ==
  \E k \in NonEmptyCalls : \E i \in Regs :
    /\ i > hist[k].n
    /\ m[i].kind = "AwaitDone"
    /\ pc[i] = "returned"

\* C17: while wait is in select, indexes maps the select-operation indexes
\* one to one onto the registration indexes, each operation to the
\* registration whose receiver it watches; the module wait reads is the one
\* whose channel was ready, and wait never returns the lookup error.
C17_LookupAlwaysSucceeds ==
  /\ [](wpc = "select" =>
          /\ DOMAIN indexes = 0..(N - 1)
          /\ {indexes[k] : k \in DOMAIN indexes} = 0..(N - 1)
          /\ \A k \in DOMAIN indexes : indexes[k] = k)
  /\ [](\A k \in Calls : rets[k].kind # "ErrLookup")
  /\ [][WaitReturns =>
          \E k \in ReadyOps : k \in DOMAIN indexes /\ SelectedNow = k + 1]_vars

\* C17 witness: a wait over two modules looked up operation 1 and read the
\* second registration's posted result.
C17_Witness ==
  \E k \in NonEmptyCalls :
    /\ hist[k].n = 2
    /\ hist[k].midx = 2
    /\ hist[k].recv.got = "value"
    /\ rets[k] = OkRet

====
